---- MODULE Spec2Model ----
(***************************************************************************)
(* GOC Visualiser: the analysis request builder (services/gemini.ts), the  *)
(* application controller (App) and the drawing surface                    *)
(* (components/DrawingCanvas.tsx) as one state machine.                    *)
(*                                                                         *)
(* JavaScript strings are TLA+ strings (sequences of characters): Len, \o  *)
(* and SubSeq act on them character by character.  A value that may be     *)
(* null is a sequence of at most one element: << >> is null, <<s>> is s.   *)
(***************************************************************************)
EXTENDS Integers, Sequences, FiniteSets, TLC

\* ------------------------------------------------------------------ bounds

\* Error descriptions of the backend are concatenations of this many chunks.
MaxChunks == 2

\* The drawing surface is at most MaxW cells wide and MaxH cells high.
MaxW == 2

MaxH == 2

\* The backend holds at most this many calls that have not settled.
MaxInFlight == 2

\* ----------------------------------------------------------------- strings

Null == << >>

Some(s) == <<s>>

\* JavaScript truthiness of a string | null value: null and "" are falsy.
Falsy(v) == v = Null \/ v[1] = ""

Ch(s, i) == SubSeq(s, i, i)

\* String.prototype.includes
Includes(s, pat) ==
    \E i \in 1..(Len(s) - Len(pat) + 1) : SubSeq(s, i, i + Len(pat) - 1) = pat

\* String.prototype.startsWith
StartsWith(s, pat) == Len(pat) <= Len(s) /\ SubSeq(s, 1, Len(pat)) = pat

EndsWith(s, pat) ==
    Len(pat) <= Len(s) /\ SubSeq(s, Len(s) - Len(pat) + 1, Len(s)) = pat

WhiteSpace == {" ", "\t", "\n", "\r"}

\* String.prototype.trim
RECURSIVE TrimStart(_)
TrimStart(s) ==
    IF Len(s) > 0 /\ Ch(s, 1) \in WhiteSpace
    THEN TrimStart(SubSeq(s, 2, Len(s)))
    ELSE s

RECURSIVE TrimEnd(_)
TrimEnd(s) ==
    IF Len(s) > 0 /\ Ch(s, Len(s)) \in WhiteSpace
    THEN TrimEnd(SubSeq(s, 1, Len(s) - 1))
    ELSE s

Trim(s) == TrimEnd(TrimStart(s))

Digits == {"0", "1", "2", "3", "4", "5", "6", "7", "8", "9"}

\* The regular expression class \w
WordChars ==
    Digits \cup {"_"} \cup
    {"a", "b", "c", "d", "e", "f", "g", "h", "i", "j", "k", "l", "m",
     "n", "o", "p", "q", "r", "s", "t", "u", "v", "w", "x", "y", "z"} \cup
    {"A", "B", "C", "D", "E", "F", "G", "H", "I", "J", "K", "L", "M",
     "N", "O", "P", "Q", "R", "S", "T", "U", "V", "W", "X", "Y", "Z"}

\* ---------------------------------------------------------------- types.ts

EducationLevel ==
    {"Class 9-10 (Foundation)", "Class 11-12 (CBSE/State Boards)",
     "JEE Mains/Advanced & NEET", "Undergraduate (B.Sc/B.Tech)"}

BOARD_LEVEL == "Class 11-12 (CBSE/State Boards)"

\* The fields of ChemicalData that have no "?"
ChemicalDataFields ==
    {"name", "iupacName", "molecularFormula", "summary", "keyPoints",
     "reactions_or_uses", "curriculumContext", "funFacts", "analogy"}

\* ------------------------------------------------------- JSON.parse (text)

JsNull == [type |-> "null"]

\* JavaScript truthiness of a parsed JSON value.
Truthy(v) ==
    CASE v.type = "null" -> FALSE
      [] v.type = "boolean" -> v.val
      [] v.type = "number" -> v.text \notin {"0", "-0"}
      [] v.type = "string" -> v.val # ""
      [] OTHER -> TRUE

RECURSIVE SkipWs(_, _)
SkipWs(s, i) ==
    IF i <= Len(s) /\ Ch(s, i) \in WhiteSpace THEN SkipWs(s, i + 1) ELSE i

\* The index after the last digit of the run of digits that starts at i.
RECURSIVE DigitsEnd(_, _)
DigitsEnd(s, i) ==
    IF i <= Len(s) /\ Ch(s, i) \in Digits THEN DigitsEnd(s, i + 1) ELSE i

\* The index of the first '"' at or after i, or 0: strings have no escapes here,
\* and a control character inside a string is a syntax error.
RECURSIVE QuoteAt(_, _)
QuoteAt(s, i) ==
    IF i > Len(s) \/ Ch(s, i) \in {"\\", "\n", "\t", "\r"} THEN 0
    ELSE IF Ch(s, i) = "\"" THEN i
    ELSE QuoteAt(s, i + 1)

ParseFail == [ok |-> FALSE]

At(s, i, lit) ==
    i >= 1 /\ i + Len(lit) - 1 <= Len(s) /\ SubSeq(s, i, i + Len(lit) - 1) = lit

\* A JSON value starting at s[i] (no leading white space): [ok, val, next].
RECURSIVE ParseValue(_, _)
RECURSIVE ParseElements(_, _, _)
RECURSIVE ParseMembers(_, _, _)
ParseValue(s, i) ==
    CASE i > Len(s) -> ParseFail
      [] At(s, i, "null") -> [ok |-> TRUE, val |-> JsNull, next |-> i + 4]
      [] At(s, i, "true") ->
           [ok |-> TRUE, val |-> [type |-> "boolean", val |-> TRUE], next |-> i + 4]
      [] At(s, i, "false") ->
           [ok |-> TRUE, val |-> [type |-> "boolean", val |-> FALSE], next |-> i + 5]
      [] At(s, i, "\"") ->
           LET q == QuoteAt(s, i + 1) IN
           IF q = 0 THEN ParseFail
           ELSE [ok |-> TRUE,
                 val |-> [type |-> "string", val |-> SubSeq(s, i + 1, q - 1)],
                 next |-> q + 1]
      [] At(s, i, "[") ->
           LET j == SkipWs(s, i + 1) IN
           IF At(s, j, "]")
           THEN [ok |-> TRUE, val |-> [type |-> "array", items |-> << >>],
                 next |-> j + 1]
           ELSE ParseElements(s, j, << >>)
      [] At(s, i, "{") ->
           LET j == SkipWs(s, i + 1) IN
           IF At(s, j, "}")
           THEN [ok |-> TRUE, val |-> [type |-> "object", fields |-> << >>],
                 next |-> j + 1]
           ELSE ParseMembers(s, j, << >>)
      [] Ch(s, i) \in Digits ->
           LET e == DigitsEnd(s, i) IN
           \* a leading zero is followed by no further digit
           IF Ch(s, i) = "0" /\ e > i + 1 THEN ParseFail
           ELSE [ok |-> TRUE, val |-> [type |-> "number", text |-> SubSeq(s, i, e - 1)],
                 next |-> e]
      [] OTHER -> ParseFail

\* The elements of an array from s[i], after those in acc, to the closing "]".
ParseElements(s, i, acc) ==
    LET v == ParseValue(s, i) IN
    IF ~v.ok THEN ParseFail
    ELSE LET j == SkipWs(s, v.next) IN
         CASE At(s, j, ",") -> ParseElements(s, SkipWs(s, j + 1), Append(acc, v.val))
           [] At(s, j, "]") ->
                [ok |-> TRUE, val |-> [type |-> "array", items |-> Append(acc, v.val)],
                 next |-> j + 1]
           [] OTHER -> ParseFail

\* The members of an object from s[i], after those in acc (a function from the
\* keys to the values; a repeated key keeps its last value), to the closing "}".
ParseMembers(s, i, acc) ==
    LET k == ParseValue(s, i) IN
    IF ~k.ok \/ k.val.type # "string" THEN ParseFail
    ELSE LET c == SkipWs(s, k.next) IN
         IF ~At(s, c, ":") THEN ParseFail
         ELSE LET v == ParseValue(s, SkipWs(s, c + 1)) IN
              IF ~v.ok THEN ParseFail
              ELSE LET j == SkipWs(s, v.next)
                       more == (k.val.val :> v.val) @@ acc
                   IN  CASE At(s, j, ",") -> ParseMembers(s, SkipWs(s, j + 1), more)
                         [] At(s, j, "}") ->
                              [ok |-> TRUE,
                               val |-> [type |-> "object", fields |-> more],
                               next |-> j + 1]
                         [] OTHER -> ParseFail

\* JSON.parse: [ok |-> TRUE, val |-> v], or [ok |-> FALSE] where it throws.
JSONParse(s) ==
    LET r == ParseValue(s, SkipWs(s, 1)) IN
    IF r.ok /\ SkipWs(s, r.next) > Len(s)
    THEN [ok |-> TRUE, val |-> r.val]
    ELSE ParseFail

\* ------------------------------------------------------ services/gemini.ts

ValidationMessage == "Please provide a drawing or chemical name."

EmptyResponseMessage == "Empty response received from AI model."

MalformedMessage ==
    "Failed to structure the chemical data. The AI response was malformed."

AuthMessage == "Authentication Failed: Please check your API key configuration."

AccessDeniedMessage ==
    "Access Denied: The API key cannot access this model or region."

RateLimitedMessage ==
    "High Traffic: The service is currently busy. Please try again in a few seconds."

NetworkMessage == "Network Error: Please check your internet connection."

ContentPolicyMessage ==
    "Content Warning: The input was flagged by safety filters. Try a different drawing."

DataErrorMessage ==
    "Data Error: Could not interpret the AI's response. Please try again."

\* The check with the text compared to null only.
InputMissingNullText(imageData, textInput) == Falsy(imageData) /\ textInput = Null

\* if (!imageData && !textInput)
InputMissing(imageData, textInput) == Falsy(imageData) /\ Falsy(textInput)

\* The index after the run of \w characters that starts at i.
RECURSIVE WordEnd(_, _)
WordEnd(s, i) ==
    IF i <= Len(s) /\ Ch(s, i) \in WordChars THEN WordEnd(s, i + 1) ELSE i

\* imageData.replace(/^data:image\/\w+;base64,/, "")
Base64Data(imageData) ==
    LET start == Len("data:image/") + 1
        e == WordEnd(imageData, start)
    IN  IF StartsWith(imageData, "data:image/") /\ e > start
           /\ At(imageData, e, ";base64,")
        THEN SubSeq(imageData, e + Len(";base64,"), Len(imageData))
        ELSE imageData

MimeType(imageData) ==
    IF StartsWith(imageData, "data:image/jpeg") THEN "image/jpeg" ELSE "image/png"

QueryLabel == "\n\nChemical Name/Query: "

\* The prompt template, its fixed text shortened to the sentences that carry a
\* parameter.
PromptText(imageData, level) ==
    "Act as a highly experienced Chemistry teacher. Identify the chemical compound from the "
        \o (IF ~Falsy(imageData) THEN "image" ELSE "name provided below")
        \o ". Target Audience Level: " \o level
        \o " Provide a structured response tailored to a student in " \o level \o "."

\* The parts of the request: the image part when there is an image, then the
\* text part.
BuildParts(imageData, textInput, level) ==
    (IF ~Falsy(imageData)
     THEN << [inlineData |-> [data |-> Base64Data(imageData[1]),
                              mimeType |-> MimeType(imageData[1])]] >>
     ELSE << >>)
    \o << [text |-> PromptText(imageData, level)
                      \o (IF ~Falsy(textInput) THEN QueryLabel \o textInput[1] ELSE "")] >>

\* What a step of analyzeChemicalStructure comes to: it returns a value, throws
\* an Error with a message, or awaits the backend; requests are the
\* generateContent calls the step makes.
Returns(v) == [kind |-> "return", value |-> v, requests |-> << >>]

Throws(m) == [kind |-> "throw", message |-> m, requests |-> << >>]

Awaits(reqs) == [kind |-> "await", requests |-> reqs]

\* From the call to the await of generateContent.
AnalyzeBegin(imageData, textInput, level) ==
    IF InputMissing(imageData, textInput)
    THEN Throws(ValidationMessage)
    ELSE Awaits(<< [parts |-> BuildParts(imageData, textInput, level)] >>)

\* JSON.parse's own SyntaxError, which quotes the text, thrown on.
JsonParseFailureNative(text) ==
    [name |-> "SyntaxError", message |-> "Unexpected token in JSON: " \o text]

\* The Error thrown where JSON.parse throws on the response text.
JsonParseFailure(text) == [name |-> "Error", message |-> MalformedMessage]

\* The try block after the await: the value returned, or the Error thrown.
\* response.text is a string or undefined.
ReadResponse(text) ==
    IF Falsy(text)
    THEN [thrown |-> TRUE, error |-> [name |-> "Error", message |-> EmptyResponseMessage]]
    ELSE LET parsed == JSONParse(text[1]) IN
         IF parsed.ok
         THEN [thrown |-> FALSE, value |-> parsed.val]
         ELSE [thrown |-> TRUE, error |-> JsonParseFailure(text[1])]

\* error.message || error.toString()
ErrString(error) ==
    IF error.message # "" THEN error.message
    ELSE IF error.name = "" THEN "Error" ELSE error.name

\* The chain with the network check moved to its head.
ClassifyNetworkFirst(errString) ==
    IF Includes(errString, "fetch failed") \/ Includes(errString, "network")
    THEN NetworkMessage
    ELSE IF Includes(errString, "API key") \/ Includes(errString, "401")
    THEN AuthMessage
    ELSE IF Includes(errString, "403") THEN AccessDeniedMessage
    ELSE IF Includes(errString, "429") THEN RateLimitedMessage
    ELSE IF Includes(errString, "Safety") \/ Includes(errString, "blocked")
    THEN ContentPolicyMessage
    ELSE IF Includes(errString, "JSON") \/ Includes(errString, "structure")
    THEN DataErrorMessage
    ELSE errString

\* The chain with the test of "429" put before the test of "403".
ClassifyRateBeforeAccess(errString) ==
    IF Includes(errString, "API key") \/ Includes(errString, "401")
    THEN AuthMessage
    ELSE IF Includes(errString, "429") THEN RateLimitedMessage
    ELSE IF Includes(errString, "403") THEN AccessDeniedMessage
    ELSE IF Includes(errString, "fetch failed") \/ Includes(errString, "network")
    THEN NetworkMessage
    ELSE IF Includes(errString, "Safety") \/ Includes(errString, "blocked")
    THEN ContentPolicyMessage
    ELSE IF Includes(errString, "JSON") \/ Includes(errString, "structure")
    THEN DataErrorMessage
    ELSE errString

\* The chain that categorizes the error description.
Classify(errString) ==
    IF Includes(errString, "API key") \/ Includes(errString, "401")
    THEN AuthMessage
    ELSE IF Includes(errString, "403") THEN AccessDeniedMessage
    ELSE IF Includes(errString, "429") THEN RateLimitedMessage
    ELSE IF Includes(errString, "fetch failed") \/ Includes(errString, "network")
    THEN NetworkMessage
    ELSE IF Includes(errString, "Safety") \/ Includes(errString, "blocked")
    THEN ContentPolicyMessage
    ELSE IF Includes(errString, "JSON") \/ Includes(errString, "structure")
    THEN DataErrorMessage
    ELSE errString

\* A catch block that sends the request once more before it gives up.
CatchBlockRetry(error, req, attempt) ==
    IF attempt < 2 THEN Awaits(<<req>>) ELSE Throws(Classify(ErrString(error)))

\* The catch block: what it does with the error caught on attempt number
\* `attempt` of the request `req`.
CatchBlock(error, req, attempt) == Throws(Classify(ErrString(error)))

\* From the backend's answer to the end of the call.  The backend's answer is
\* [kind |-> "response", text |-> ...] or [kind |-> "error", error |-> ...].
AnalyzeEnd(answer, req, attempt) ==
    IF answer.kind = "error"
    THEN CatchBlock(answer.error, req, attempt)
    ELSE LET r == ReadResponse(answer.text) IN
         IF r.thrown THEN CatchBlock(r.error, req, attempt) ELSE Returns(r.value)

\* -------------------------------------------------------------------- state

VARIABLES
    \* App (the controller)
    level,          \* the curriculum level selected
    textInput,      \* the text field's content
    result,         \* the stored ChemicalData, JsNull when there is none
    isProcessing,   \* the processing flag
    error,          \* the stored error message, or Null
    \* DrawingCanvas
    width,          \* canvas.width
    height,         \* canvas.height
    pixels,         \* the buffer: [0..width-1 \X 0..height-1 -> Colours]
    isDrawing,      \* a stroke is active
    hasDrawn,       \* the surface holds ink, as far as the component knows
    tool,           \* "pen" or "eraser"
    penPos,         \* the last point of the context's current path, or Null
    pathPx,         \* the pixels the current path's segments pass through
    \* the backend
    inflight,       \* the generateContent calls that have not settled
    \* a caller of analyzeChemicalStructure other than App
    outcome,        \* what its last call came to
    \* what the last step was
    lastOp,         \* the handler that ran
    wire,           \* the number of generateContent calls it made
    \* App (the theme)
    isDarkMode,     \* the dark theme is active
    theme,          \* localStorage's item 'theme', or Null
    prefersDark,    \* matchMedia('(prefers-color-scheme: dark)').matches
    saved,          \* what the item was when App last mounted
    darkClass,      \* document.documentElement has the class 'dark'
    \* ResultCard
    isGenerating,   \* a PDF is being generated
    pdf             \* the document last saved, or Null

appVars == <<level, textInput, result, isProcessing, error>>

canvasVars == <<width, height, pixels, isDrawing, hasDrawn, tool, penPos, pathPx>>

themeVars == <<isDarkMode, theme, prefersDark, saved, darkClass>>

cardVars == <<isGenerating, pdf>>

shellVars == <<themeVars, cardVars>>

vars == <<appVars, canvasVars, inflight, outcome, lastOp, wire, shellVars>>

NoOutcome == [kind |-> "none"]

\* The calls a step of analyzeChemicalStructure leaves in flight.
Issued(call, step, attempt) ==
    [i \in 1..Len(step.requests) |->
        [call |-> call, request |-> step.requests[i], attempt |-> attempt]]

\* ------------------------------------------------------ App: the theme

ThemeName(dark) == IF dark THEN "dark" ELSE "light"

\* What the item 'theme' of localStorage holds when App mounts.
StoredThemes == {Null, Some("dark"), Some("light")}

\* The initializer of isDarkMode: the saved item if there is one, else the
\* system's preference.
InitialDarkMode(item, matches) ==
    IF ~Falsy(item) THEN item[1] = "dark" ELSE matches

\* App has mounted and the effect on isDarkMode has run.
InitTheme(items, matchings) ==
    \E item \in items, matches \in matchings :
        /\ saved = item
        /\ prefersDark = matches
        /\ isDarkMode = InitialDarkMode(item, matches)
        /\ theme = Some(ThemeName(isDarkMode))
        /\ darkClass = isDarkMode

\* --------------------------------------------- ResultCard: handleDownloadPDF

imgWidth == 210

pageHeight == 297

\* The canvases html2canvas makes of the card, <<width, height>> in pixels.
CanvasSizes ==
    {<<1600, 900>>, <<1600, 2262>>, <<1600, 2263>>, <<1600, 4000>>,
     <<1600, 15839>>, <<1600, 15840>>, <<1600, 15841>>,
     <<2100, 2969>>, <<2100, 2970>>, <<2100, 2971>>, <<2100, 5940>>, <<2100, 7000>>}

\* What html2canvas comes to: a canvas, or a rejection.
RenderAnswers ==
    {[kind |-> "canvas", size |-> sz] : sz \in CanvasSizes} \cup {[kind |-> "error"]}

\* The while loop.  Lengths are exact, in units of 1/unit mm; a page is the y
\* at which addImage puts the image on it.
RECURSIVE AddPages(_, _, _, _)
AddPages(heightLeft, imgHeight, unit, pages) ==
    IF heightLeft >= 0
    THEN AddPages(heightLeft - pageHeight * unit, imgHeight, unit,
                  Append(pages, heightLeft - imgHeight))
    ELSE pages

\* From imgHeight to the end of the loop, for a canvas cw by ch: imgHeight is
\* ch * imgWidth / cw, that is ch * imgWidth in units of 1/cw mm.
Paginate(cw, ch) ==
    [unit |-> cw,
     imgHeight |-> ch * imgWidth,
     pages |-> AddPages(ch * imgWidth - pageHeight * cw, ch * imgWidth, cw, <<0>>)]

\* name.replace(/\s+/g, '_')
RECURSIVE ReplaceSpaces(_)
ReplaceSpaces(s) ==
    IF s = "" THEN ""
    ELSE IF Ch(s, 1) \in WhiteSpace
    THEN "_" \o ReplaceSpaces(TrimStart(s))
    ELSE Ch(s, 1) \o ReplaceSpaces(SubSeq(s, 2, Len(s)))

\* data.name is a string.
HasName(data) ==
    /\ data.type = "object"
    /\ "name" \in DOMAIN data.fields
    /\ data.fields["name"].type = "string"

Filename(data) == ReplaceSpaces(data.fields["name"].val) \o "_Analysis.pdf"

InitCard == isGenerating = FALSE /\ pdf = Null

\* Where the theme and the card are not looked at: nothing stored, the system
\* prefers light, no PDF asked for.
InitShellLight == InitTheme({Null}, {FALSE}) /\ InitCard

\* ------------------------------------- analyzeChemicalStructure called alone

ImageInputs ==
    {Null, Some(""), Some("data:image/jpeg;base64,/9j/4AAQ"),
     Some("data:image/png;base64,iVBORw0K"), Some("iVBORw0K")}

TextInputs == {Null, Some(""), Some("Benzene")}

FullBody ==
    "{\"name\":\"Benzene\",\"iupacName\":\"benzene\",\"molecularFormula\":\"C6H6\","
    \o "\"summary\":\"s\",\"keyPoints\":[\"k\"],\"reactions_or_uses\":[\"r\"],"
    \o "\"curriculumContext\":\"c\",\"analogy\":\"a\",\"funFacts\":[\"f\"]}"

\* Response texts: undefined, empty, JSON with every field, JSON that lacks
\* fields or is no object, and texts that are no JSON.
ResponseTexts ==
    {Null, Some(""), Some(FullBody), Some(" " \o FullBody \o "\n"),
     Some("{\"name\":\"Benzene\",\"iupacName\":\"benzene\"}"),
     Some("{\"name\":\"Benzene\",\"summary\":\"s\",\"keyPoints\":[]}"),
     Some("{}"), Some("null"), Some("[]"), Some("7"), Some("0"), Some("\"Benzene\""),
     Some("{"), Some("{\"name\":\"Benzene\""), Some("Benzene is C6H6"),
     Some(FullBody \o "}"), Some("<html>429 Too Many Requests</html>"),
     Some("401 Unauthorized"), Some("The API key is blocked"),
     Some("json: {}")}

ErrChunks ==
    {"", "429", "403", "401", "API key", "fetch failed", "network", "Safety",
     "blocked", "JSON", "structure", "4", "29", " "}

\* The concatenations of n chunks.
RECURSIVE Concats(_)
Concats(n) ==
    IF n = 0 THEN {""} ELSE {a \o b : a \in Concats(n - 1), b \in ErrChunks}

\* What generateContent throws: Errors with these descriptions, and one whose
\* message is empty.
BackendErrors ==
    {[name |-> "Error", message |-> m] : m \in Concats(MaxChunks)}
        \cup {[name |-> "ApiError", message |-> ""]}

Answers ==
    {[kind |-> "response", text |-> t] : t \in ResponseTexts}
        \cup {[kind |-> "error", error |-> e] : e \in BackendErrors}

InitCanvasBlank ==
    /\ width = 1 /\ height = 1
    /\ pixels = [p \in {<<0, 0>>} |-> "white"]
    /\ isDrawing = FALSE /\ hasDrawn = FALSE /\ tool = "pen"
    /\ penPos = Null /\ pathPx = {}

InitApp ==
    /\ level = BOARD_LEVEL
    /\ textInput = ""
    /\ result = JsNull
    /\ isProcessing = FALSE
    /\ error = Null

InitAnalyze ==
    /\ InitApp /\ InitCanvasBlank
    /\ inflight = << >>
    /\ outcome = NoOutcome
    /\ InitShellLight
    /\ lastOp = "init" /\ wire = 0

\* A caller invokes analyzeChemicalStructure(imageData, textInput, level).  The
\* function keeps no state between calls: one call per behaviour shows all of it.
AnalyzeCall(imageData, text, lvl) ==
    /\ outcome = NoOutcome
    /\ inflight = << >>
    /\ \E call \in {[imageData |-> imageData, textInput |-> text, level |-> lvl]} :
       \E step \in {AnalyzeBegin(imageData, text, lvl)} :
           /\ inflight' = Issued(call, step, 1)
           /\ wire' = Len(step.requests)
           /\ outcome' = [kind |-> step.kind, call |-> call,
                          sent |-> Len(step.requests),
                          answer |-> Null,
                          settled |-> IF step.kind = "throw" THEN Some(step.message)
                                      ELSE Null]
    /\ lastOp' = "analyze"
    /\ UNCHANGED <<appVars, canvasVars, shellVars>>

\* The backend answers the call in flight, which runs to its end.
AnalyzeSettles(answer) ==
    /\ inflight # << >>
    /\ \E e \in {inflight[1]} :
       \E step \in {AnalyzeEnd(answer, e.request, e.attempt)} :
           /\ inflight' = Tail(inflight) \o Issued(e.call, step, e.attempt + 1)
           /\ wire' = Len(step.requests)
           /\ outcome' = [kind |-> step.kind, call |-> e.call,
                          sent |-> outcome.sent + Len(step.requests),
                          answer |-> Some(answer),
                          settled |-> CASE step.kind = "throw" -> Some(step.message)
                                        [] step.kind = "return" -> Some(step.value)
                                        [] OTHER -> Null]
    /\ lastOp' = "settle"
    /\ UNCHANGED <<appVars, canvasVars, shellVars>>

NextAnalyze ==
    \/ \E i \in ImageInputs, t \in TextInputs, l \in EducationLevel : AnalyzeCall(i, t, l)
    \/ \E a \in Answers : AnalyzeSettles(a)

SpecAnalyze == InitAnalyze /\ [][NextAnalyze]_vars

\* ------------------------------------------- components/DrawingCanvas.tsx

Colours == {"transparent", "white", "ink"}

Grid(w, h) == (0..(w - 1)) \X (0..(h - 1))

Abs(n) == IF n < 0 THEN -n ELSE n

Max(a, b) == IF a > b THEN a ELSE b

\* The cells the straight segment from a to b passes through.
Seg(a, b) ==
    {p \in (0..Max(a[1], b[1])) \X (0..Max(a[2], b[2])) :
        /\ Abs(p[1] - a[1]) + Abs(p[1] - b[1]) = Abs(a[1] - b[1])
        /\ Abs(p[2] - a[2]) + Abs(p[2] - b[2]) = Abs(a[2] - b[2])
        /\ 2 * Abs((p[1] - a[1]) * (b[2] - a[2]) - (p[2] - a[2]) * (b[1] - a[1]))
              <= Max(Abs(a[1] - b[1]), Abs(a[2] - b[2]))}

\* ctx.lineWidth = tool === 'eraser' ? 20 : 3
LineWidth(t) == IF t = "eraser" THEN 20 ELSE 3

\* ctx.strokeStyle = tool === 'eraser' ? '#ffffff' : strokeColor
StrokeStyle(t) == IF t = "eraser" THEN "white" ELSE "ink"

\* The cells a stroke of the path covers: a cell is as wide as the eraser, so the
\* eraser reaches the neighbouring cells and the pen stays in the path's own.
Covered(path, t, w, h) ==
    {p \in Grid(w, h) :
        \E q \in path : /\ Abs(p[1] - q[1]) <= LineWidth(t) \div 20
                        /\ Abs(p[2] - q[2]) <= LineWidth(t) \div 20}

\* ctx.stroke() of the path with the tool's width and colour.
Stroke(px, path, t, w, h) ==
    [p \in Grid(w, h) |-> IF p \in Covered(path, t, w, h) THEN StrokeStyle(t) ELSE px[p]]

\* ctx.fillStyle = '#ffffff'; ctx.fillRect(0, 0, w, h) on a buffer cw by ch
FillWhite(px, cw, ch, w, h) ==
    [p \in Grid(cw, ch) |-> IF p[1] < w /\ p[2] < h THEN "white" ELSE px[p]]

\* Assigning canvas.width and canvas.height: a new, transparent buffer.
Resized(w, h) == [p \in Grid(w, h) |-> "transparent"]

\* ctx.drawImage(tempCanvas, 0, 0): the copy, tw by th, drawn over the buffer at
\* its top left; a transparent cell of the copy leaves the buffer's cell.
DrawImage(px, w, h, temp, tw, th) ==
    [p \in Grid(w, h) |->
        IF p[1] < tw /\ p[2] < th /\ temp[p] # "transparent" THEN temp[p] ELSE px[p]]

\* handleResize without the white fill: the copy drawn onto the new buffer as
\* the assignment of its size left it.
ResizedPixelsNoFill(px, cw, ch, w, h) ==
    DrawImage(Resized(w, h), w, h, px, cw, ch)

\* The cells of the buffer that will hold after handleResize to w by h.
ResizedPixels(px, cw, ch, w, h) ==
    DrawImage(FillWhite(Resized(w, h), w, h, w, h), w, h, px, cw, ch)

\* canvas.toDataURL('image/jpeg', 0.7): a JPEG data URL, or a PNG one where the
\* browser has no JPEG encoder.  The encoder is the browser's: the bytes it
\* makes of the buffer are left fixed, only their header follows the type.
ToDataURL(px, type) ==
    "data:" \o type \o ";base64,"
        \o (IF type = "image/jpeg" THEN "/9j/4AAQ" ELSE "iVBORw0K")

ImageTypes == {"image/jpeg", "image/png"}

\* handleCapture: what it hands to onCapture.
ExportStill(drawn, px, type) ==
    IF ~drawn THEN Null ELSE Some(ToDataURL(px, type))

\* The Identify button is enabled.
IdentifyEnabled == ~(isProcessing \/ ~hasDrawn)

\* ------------------------------------------------------------------- App

EmptyInputMessage == "Please draw a structure or enter a name."

\* textInput.trim() || null
TextArgument(t) == IF Trim(t) = "" THEN Null ELSE Some(Trim(t))

\* handleAnalysis(imageData), to its first await or to its end.
handleAnalysis(imageData) ==
    IF Falsy(imageData) /\ Trim(textInput) = ""
    THEN /\ error' = Some(EmptyInputMessage)
         /\ wire' = 0
         /\ UNCHANGED <<level, textInput, result, isProcessing, inflight>>
    ELSE \E call \in {[imageData |-> imageData,
                       textInput |-> TextArgument(textInput), level |-> level]} :
         \E step \in {AnalyzeBegin(call.imageData, call.textInput, call.level)} :
             /\ Len(inflight) < MaxInFlight
             /\ inflight' = inflight \o Issued(call, step, 1)
             /\ wire' = Len(step.requests)
             /\ result' = JsNull
             /\ error' = IF step.kind = "throw" THEN Some(step.message) ELSE Null
             /\ isProcessing' = (step.kind = "await")
             /\ UNCHANGED <<level, textInput>>

\* What the user types into the text field.
TextValues == {"", " ", "Benzene"}

\* The backend's answers to App's requests: JSON with every field, JSON null,
\* text that is no JSON, and an Error.
AppAnswers ==
    {[kind |-> "response", text |-> Some(t)] : t \in {FullBody, "null", "{"}}
    \cup {[kind |-> "error", error |-> [name |-> "Error", message |-> "fetch failed"]]}

\* The levels the user selects where the controller is looked at.
AppLevels == {BOARD_LEVEL, "JEE Mains/Advanced & NEET"}

\* After mount and the first handleResize: a white buffer of the container's size.
InitCanvas(sizes) ==
    /\ \E sz \in sizes :
          /\ width = sz[1] /\ height = sz[2]
          /\ pixels = [p \in Grid(sz[1], sz[2]) |-> "white"]
    /\ isDrawing = FALSE /\ hasDrawn = FALSE /\ tool = "pen"
    /\ penPos = Null /\ pathPx = {}

\* The sizes the container takes.  Where the controller is looked at, the
\* surface is a single cell; where the surface is looked at, the controller
\* keeps its level and its text, and the backend has one answer.
OneCell == {<<1, 1>>}

Sizes == (1..MaxW) \X (1..MaxH)

SurfaceAnswers == {[kind |-> "response", text |-> Some(FullBody)]}

Init ==
    /\ InitApp
    /\ InitCanvas(OneCell)
    /\ inflight = << >>
    /\ outcome = NoOutcome
    /\ InitShellLight
    /\ lastOp = "init" /\ wire = 0

InitSurface ==
    /\ level = BOARD_LEVEL
    /\ textInput = "Benzene"
    /\ result = JsNull
    /\ isProcessing = FALSE
    /\ error = Null
    /\ InitCanvas(Sizes)
    /\ inflight = << >>
    /\ outcome = NoOutcome
    /\ InitShellLight
    /\ lastOp = "init" /\ wire = 0

\* onMouseDown / onTouchStart at cell p
startDrawing(p) ==
    /\ p \in Grid(width, height)
    /\ lastOp' = "startDrawing" /\ wire' = 0
    /\ IF isProcessing
       THEN UNCHANGED canvasVars
       ELSE /\ isDrawing' = TRUE
            /\ hasDrawn' = TRUE
            /\ penPos' = Some(p)
            /\ pathPx' = {}
            /\ UNCHANGED <<width, height, pixels, tool>>
    /\ UNCHANGED <<appVars, inflight, outcome, shellVars>>

\* onMouseMove / onTouchMove at cell p
draw(p) ==
    /\ p \in Grid(width, height)
    /\ lastOp' = "draw" /\ wire' = 0
    /\ IF ~isDrawing \/ isProcessing
       THEN UNCHANGED canvasVars
       ELSE /\ penPos' = Some(p)
            \* lineTo on an empty path only sets the path's point
            /\ pathPx' = IF penPos = Null THEN pathPx ELSE pathPx \cup Seg(penPos[1], p)
            /\ pixels' = Stroke(pixels, pathPx', tool, width, height)
            /\ UNCHANGED <<width, height, isDrawing, hasDrawn, tool>>
    /\ UNCHANGED <<appVars, inflight, outcome, shellVars>>

\* onMouseUp / onMouseLeave / onTouchEnd.  closePath joins the path's end to
\* its start; nothing strokes the path again before the next beginPath.
stopDrawing ==
    /\ lastOp' = "stopDrawing" /\ wire' = 0
    /\ IF isProcessing
       THEN UNCHANGED canvasVars
       ELSE /\ isDrawing' = FALSE
            /\ UNCHANGED <<width, height, pixels, hasDrawn, tool, penPos, pathPx>>
    /\ UNCHANGED <<appVars, inflight, outcome, shellVars>>

\* The Pen and Eraser buttons
setTool(t) ==
    /\ t # tool
    /\ tool' = t
    /\ lastOp' = "setTool" /\ wire' = 0
    /\ UNCHANGED <<width, height, pixels, isDrawing, hasDrawn, penPos, pathPx>>
    /\ UNCHANGED <<appVars, inflight, outcome, shellVars>>

\* Clear All returning early while a request is in flight, as the pointer
\* handlers do.
clearCanvasGuarded ==
    /\ lastOp' = "clearCanvas" /\ wire' = 0
    /\ IF isProcessing
       THEN UNCHANGED canvasVars
       ELSE /\ pixels' = [p \in Grid(width, height) |-> "white"]
            /\ hasDrawn' = FALSE
            /\ UNCHANGED <<width, height, isDrawing, tool, penPos, pathPx>>
    /\ UNCHANGED <<appVars, inflight, outcome, shellVars>>

\* The Clear All button
clearCanvas ==
    /\ pixels' = FillWhite(pixels, width, height, width, height)
    /\ hasDrawn' = FALSE
    /\ lastOp' = "clearCanvas" /\ wire' = 0
    /\ UNCHANGED <<width, height, isDrawing, tool, penPos, pathPx>>
    /\ UNCHANGED <<appVars, inflight, outcome, shellVars>>

\* The window's resize event, the container now w by h.  Assigning the
\* canvas's size resets the context, its path included.
handleResize(w, h) ==
    /\ width' = w /\ height' = h
    /\ pixels' = ResizedPixels(pixels, width, height, w, h)
    /\ penPos' = Null /\ pathPx' = {}
    /\ lastOp' = "handleResize" /\ wire' = 0
    /\ UNCHANGED <<isDrawing, hasDrawn, tool>>
    /\ UNCHANGED <<appVars, inflight, outcome, shellVars>>

\* The Identify button
handleCapture(type) ==
    /\ IdentifyEnabled
    /\ handleAnalysis(ExportStill(hasDrawn, pixels, type))
    /\ lastOp' = "handleCapture"
    /\ UNCHANGED <<canvasVars, outcome, shellVars>>

\* The level select
setLevel(l) ==
    /\ l # level
    /\ level' = l
    /\ lastOp' = "setLevel" /\ wire' = 0
    /\ UNCHANGED <<textInput, result, isProcessing, error>>
    /\ UNCHANGED <<canvasVars, inflight, outcome, shellVars>>

\* An onChange that stores the text and leaves the error.
changeTextKeepsError(t) ==
    /\ t # textInput
    /\ textInput' = t
    /\ lastOp' = "changeText" /\ wire' = 0
    /\ UNCHANGED <<level, result, isProcessing, error>>
    /\ UNCHANGED <<canvasVars, inflight, outcome, shellVars>>

\* The text field's onChange
changeText(t) ==
    /\ t # textInput
    /\ textInput' = t
    /\ error' = IF ~Falsy(error) THEN Null ELSE error
    /\ lastOp' = "changeText" /\ wire' = 0
    /\ UNCHANGED <<level, result, isProcessing>>
    /\ UNCHANGED <<canvasVars, inflight, outcome, shellVars>>

\* Enter without the test of isProcessing.
keyDownEnterUnguarded ==
    /\ lastOp' = "keyDownEnter"
    /\ handleAnalysis(Null)
    /\ UNCHANGED <<canvasVars, outcome, shellVars>>

\* Enter in the text field
keyDownEnter ==
    /\ lastOp' = "keyDownEnter"
    /\ IF ~isProcessing
       THEN handleAnalysis(Null)
       ELSE wire' = 0 /\ UNCHANGED <<appVars, inflight>>
    /\ UNCHANGED <<canvasVars, outcome, shellVars>>

\* The Go button is enabled.
GoEnabled == ~(isProcessing \/ Trim(textInput) = "")

\* Go handing the surface's still to handleAnalysis.
clickGoWithStill ==
    /\ GoEnabled
    /\ handleAnalysis(ExportStill(hasDrawn, pixels, "image/jpeg"))
    /\ lastOp' = "clickGo"
    /\ UNCHANGED <<canvasVars, outcome, shellVars>>

\* The Go button
clickGo ==
    /\ GoEnabled
    /\ handleAnalysis(Null)
    /\ lastOp' = "clickGo"
    /\ UNCHANGED <<canvasVars, outcome, shellVars>>

\* The error banner's Dismiss button; the banner shows while error is truthy.
dismissError ==
    /\ ~Falsy(error)
    /\ error' = Null
    /\ lastOp' = "dismissError" /\ wire' = 0
    /\ UNCHANGED <<level, textInput, result, isProcessing>>
    /\ UNCHANGED <<canvasVars, inflight, outcome, shellVars>>

Remove(seq, i) == SubSeq(seq, 1, i - 1) \o SubSeq(seq, i + 1, Len(seq))

\* The backend answers the i-th call in flight; analyzeChemicalStructure runs
\* to its end, and handleAnalysis after it.
requestSettles(i, answer) ==
    /\ i \in 1..Len(inflight)
    /\ \E e \in {inflight[i]} :
       \E step \in {AnalyzeEnd(answer, e.request, e.attempt)} :
           /\ inflight' = Remove(inflight, i) \o Issued(e.call, step, e.attempt + 1)
           /\ wire' = Len(step.requests)
           /\ CASE step.kind = "return" ->
                     /\ result' = step.value
                     /\ isProcessing' = FALSE
                     /\ UNCHANGED error
                [] step.kind = "throw" ->
                     /\ error' = Some(step.message)
                     /\ isProcessing' = FALSE
                     /\ UNCHANGED result
                [] OTHER -> UNCHANGED <<result, isProcessing, error>>
    /\ lastOp' = "requestSettles"
    /\ UNCHANGED <<level, textInput, canvasVars, outcome, shellVars>>

\* The theme button: setIsDarkMode(!isDarkMode), and the effect that follows
\* the change, without its localStorage.setItem.
toggleThemeUnsaved ==
    /\ isDarkMode' = ~isDarkMode
    /\ darkClass' = isDarkMode'
    /\ lastOp' = "toggleTheme" /\ wire' = 0
    /\ UNCHANGED <<theme, prefersDark, saved, cardVars>>
    /\ UNCHANGED <<appVars, canvasVars, inflight, outcome>>

\* The theme button: setIsDarkMode(!isDarkMode), and the effect that follows
\* the change.
toggleTheme ==
    /\ isDarkMode' = ~isDarkMode
    /\ darkClass' = isDarkMode'
    /\ theme' = Some(ThemeName(isDarkMode'))
    /\ lastOp' = "toggleTheme" /\ wire' = 0
    /\ UNCHANGED <<prefersDark, saved, cardVars>>
    /\ UNCHANGED <<appVars, canvasVars, inflight, outcome>>

\* The page is loaded again, the system's preference now `matches`: App and
\* its components mount anew, and what the old page awaited is dropped.  The
\* storage and the file saved stay.
restart(matches) ==
    /\ saved' = theme
    /\ prefersDark' = matches
    /\ isDarkMode' = InitialDarkMode(theme, matches)
    /\ theme' = Some(ThemeName(isDarkMode'))
    /\ darkClass' = isDarkMode'
    /\ level' = BOARD_LEVEL /\ textInput' = "" /\ result' = JsNull
    /\ isProcessing' = FALSE /\ error' = Null
    /\ pixels' = [p \in Grid(width, height) |-> "white"]
    /\ isDrawing' = FALSE /\ hasDrawn' = FALSE /\ tool' = "pen"
    /\ penPos' = Null /\ pathPx' = {}
    /\ inflight' = << >>
    /\ isGenerating' = FALSE
    /\ lastOp' = "restart" /\ wire' = 0
    /\ UNCHANGED <<width, height, outcome, pdf>>

\* The card is on the page.
CardShown == ~isProcessing /\ Truthy(result)

\* The Download PDF button, to the await of html2canvas.
handleDownloadPDF ==
    /\ CardShown /\ ~isGenerating
    /\ isGenerating' = TRUE
    /\ lastOp' = "handleDownloadPDF" /\ wire' = 0
    /\ UNCHANGED <<pdf, themeVars>>
    /\ UNCHANGED <<appVars, canvasVars, inflight, outcome>>

\* html2canvas settles and handleDownloadPDF runs to its end: the pages, the
\* save, and the finally block.  A rejection, or a name that is no string,
\* goes to the catch block and saves nothing.
canvasRendered(answer) ==
    /\ isGenerating
    /\ pdf' = IF answer.kind = "canvas" /\ HasName(result)
              THEN Some([filename |-> Filename(result)]
                            @@ Paginate(answer.size[1], answer.size[2]))
              ELSE pdf
    /\ isGenerating' = FALSE
    /\ lastOp' = IF answer.kind = "canvas" /\ HasName(result)
                 THEN "pdfSaved" ELSE "pdfFailed"
    /\ wire' = 0
    /\ UNCHANGED themeVars
    /\ UNCHANGED <<appVars, canvasVars, inflight, outcome>>

\* The user draws, clears and submits the drawing.
DrawingEvents ==
    \/ \E p \in Grid(width, height) : startDrawing(p)
    \/ \E p \in Grid(width, height) : draw(p)
    \/ stopDrawing
    \/ clearCanvas

Next ==
    \/ DrawingEvents
    \/ \E type \in ImageTypes : handleCapture(type)
    \/ \E l \in AppLevels : setLevel(l)
    \/ \E t \in TextValues : changeText(t)
    \/ keyDownEnter
    \/ clickGo
    \/ dismissError
    \/ \E i \in 1..MaxInFlight, a \in AppAnswers : requestSettles(i, a)

Spec == Init /\ [][Next]_vars

NextSurface ==
    \/ DrawingEvents
    \/ handleCapture("image/jpeg")
    \/ \E t \in {"pen", "eraser"} : setTool(t)
    \/ \E sz \in Sizes : handleResize(sz[1], sz[2])
    \/ keyDownEnter
    \/ clickGo
    \/ \E i \in 1..MaxInFlight, a \in SurfaceAnswers : requestSettles(i, a)

SpecSurface == InitSurface /\ [][NextSurface]_vars

\* The theme and the card: App mounts with any stored theme and any system
\* preference, on a surface of one cell; the user types a name, submits it,
\* switches the theme, loads the page again and downloads the PDF.  Nothing is
\* submitted and the page is not loaded again while a PDF is being generated.
InitShell ==
    /\ InitApp
    /\ InitCanvas(OneCell)
    /\ inflight = << >>
    /\ outcome = NoOutcome
    /\ InitTheme(StoredThemes, BOOLEAN) /\ InitCard
    /\ lastOp = "init" /\ wire = 0

NextShell ==
    \/ toggleTheme
    \/ \E matches \in BOOLEAN : ~isGenerating /\ restart(matches)
    \/ changeText("Benzene")
    \/ ~isGenerating /\ keyDownEnter
    \/ \E i \in 1..MaxInFlight, a \in SurfaceAnswers : requestSettles(i, a)
    \/ handleDownloadPDF
    \/ \E answer \in RenderAnswers : canvasRendered(answer)

SpecShell == InitShell /\ [][NextShell]_vars

\* ------------------------------------------------------------------ claims

\* The handlers that submit: Identify, Enter and Go.
Submits == {"handleCapture", "keyDownEnter", "clickGo"}

HasResult == Truthy(result)

HasError == ~Falsy(error)

\* C1: at most one analysis request is in flight at any time; no step sends a
\* request while the processing flag is set; and a request leaves the backend
\* only by settling: no step aborts it.
C1_AtMostOneInFlight ==
    /\ [](Len(inflight) <= 1)
    /\ [][/\ (wire' > 0 \/ Len(inflight') > Len(inflight)) => ~isProcessing
          /\ Len(inflight') < Len(inflight) => lastOp' = "requestSettles"]_vars

\* Enter is pressed while a request is in flight, and the request stays the
\* only one.
C1_Witness ==
    lastOp = "keyDownEnter" /\ isProcessing /\ Len(inflight) = 1 /\ wire = 0

Idle == ~isProcessing /\ ~HasResult /\ ~HasError

Pending == isProcessing /\ ~HasResult /\ ~HasError

Succeeded == ~isProcessing /\ HasResult /\ ~HasError

Failed == ~isProcessing /\ HasError /\ ~HasResult

\* C2: in every reachable state the controller is Idle, Pending, Succeeded or
\* Failed: a result and an error are never stored together.
C2_OutcomeIsOneOfFour == Idle \/ Pending \/ Succeeded \/ Failed

\* The call the caller of analyzeChemicalStructure made, and what came of it.
Called == outcome.kind # "none"

Settled == Called /\ outcome.settled # Null

Answered == Called /\ outcome.answer # Null

Absent(v) == v = Null \/ v = Some("")

\* C3: a call with image and text both absent (null or empty) throws the
\* validation message as it is, at any level, and sends no request.
C3_ValidationBeforeDispatch ==
    (Called /\ Absent(outcome.call.imageData) /\ Absent(outcome.call.textInput))
        => /\ outcome.kind = "throw"
           /\ outcome.settled = Some(ValidationMessage)
           /\ outcome.sent = 0 /\ wire = 0 /\ inflight = << >>
           /\ outcome.answer = Null

\* The call analyze(null, "", Undergraduate) has thrown.
C3_Witness ==
    /\ Called /\ outcome.kind = "throw"
    /\ outcome.call = [imageData |-> Null, textInput |-> Some(""),
                       level |-> "Undergraduate (B.Sc/B.Tech)"]

\* The fields the response schema requires.
HasRequiredFields(v) ==
    v.type = "object" /\ ChemicalDataFields \subseteq DOMAIN v.fields

\* The response text parses as JSON.
ParsesAsJson(answer) ==
    answer.kind = "response" /\ ~Falsy(answer.text) /\ JSONParse(answer.text[1]).ok

\* C4: a response that parses as JSON but lacks a required field (or is no
\* object) makes the call fail with the malformed-response message.
C4_MissingFieldsRejected ==
    (Answered /\ ParsesAsJson(outcome.answer[1])
              /\ ~HasRequiredFields(JSONParse(outcome.answer[1].text[1]).val))
        => outcome.kind = "throw" /\ outcome.settled = Some(DataErrorMessage)

\* C5: a response whose text is not empty and is no JSON makes the call fail
\* with the malformed-response message, whatever the text holds.
C5_InvalidJsonIsMalformed ==
    (Answered /\ outcome.answer[1].kind = "response"
              /\ ~Falsy(outcome.answer[1].text)
              /\ ~JSONParse(outcome.answer[1].text[1]).ok)
        => outcome.kind = "throw" /\ outcome.settled = Some(DataErrorMessage)

\* The response text was an error page that names 429.
C5_Witness ==
    /\ Answered
    /\ outcome.answer[1] =
          [kind |-> "response", text |-> Some("<html>429 Too Many Requests</html>")]
    /\ outcome.settled = Some(DataErrorMessage)

\* The description of the Error the backend call threw.
Description == ErrString(outcome.answer[1].error)

BackendFailed == Answered /\ outcome.answer[1].kind = "error"

\* C6, as claimed: a description with "429" and no "403" is always the
\* rate-limit message, one with "403" and no "429" always the access-denied one.
C6_AsClaimed ==
    BackendFailed =>
        /\ (Includes(Description, "429") /\ ~Includes(Description, "403"))
              => outcome.settled = Some(RateLimitedMessage)
        /\ (Includes(Description, "403") /\ ~Includes(Description, "429"))
              => outcome.settled = Some(AccessDeniedMessage)

\* C6, amended: the same of the descriptions that hold neither "API key" nor
\* "401", whatever else they hold.
C6_AfterAuthCheck ==
    (BackendFailed /\ ~Includes(Description, "API key") /\ ~Includes(Description, "401"))
        => /\ (Includes(Description, "429") /\ ~Includes(Description, "403"))
                 => outcome.settled = Some(RateLimitedMessage)
           /\ (Includes(Description, "403") /\ ~Includes(Description, "429"))
                 => outcome.settled = Some(AccessDeniedMessage)

\* A description with "429" and "network" has come out as the rate-limit message.
C6_Witness ==
    /\ BackendFailed
    /\ Includes(Description, "429") /\ Includes(Description, "network")
    /\ outcome.settled = Some(RateLimitedMessage)

\* C7: every call App makes of analyzeChemicalStructure sends one request, a
\* request is sent only by a step in which the user submits, and no call in
\* flight is a second attempt: nothing is sent again after a failure.
C7_OneRequestNoRetry ==
    /\ wire \in {0, 1}
    /\ wire = 1 => lastOp \in Submits
    /\ \A i \in 1..Len(inflight) : inflight[i].attempt = 1
    /\ error # Some(ValidationMessage)
    /\ (lastOp \in Submits /\ wire = 0)
          => \/ error = Some(EmptyInputMessage)
             \/ lastOp = "keyDownEnter" /\ isProcessing

\* A request has just failed: the error is stored and nothing is in flight.
C7_Witness ==
    lastOp = "requestSettles" /\ HasError /\ inflight = << >> /\ wire = 0

ImageParts(parts) == {i \in 1..Len(parts) : "inlineData" \in DOMAIN parts[i]}

TextParts(parts) == {i \in 1..Len(parts) : "text" \in DOMAIN parts[i]}

\* The request's parts are right for the image and the text of the call.
PartsFit(parts, imageData, text) ==
    /\ Cardinality(TextParts(parts)) = 1
    /\ Cardinality(ImageParts(parts)) = IF Absent(imageData) THEN 0 ELSE 1
    /\ Cardinality(ImageParts(parts)) + Cardinality(TextParts(parts)) = Len(parts)
    /\ \A i \in ImageParts(parts) :
          parts[i].inlineData.mimeType =
              IF StartsWith(imageData[1], "data:image/jpeg") THEN "image/jpeg"
              ELSE "image/png"
    /\ \A i \in TextParts(parts) :
          IF Absent(text)
          THEN ~Includes(parts[i].text, "Chemical Name/Query:")
          ELSE EndsWith(parts[i].text, "Chemical Name/Query: " \o text[1])

\* C8: every request in flight has one text part, an image part exactly when
\* the call had an image (JPEG by the still's header, else PNG), and the text
\* query in the text part exactly when the call had text; a request sent by Go
\* or Enter has no image part.
C8_RequestParts ==
    /\ \A i \in 1..Len(inflight) :
          PartsFit(inflight[i].request.parts, inflight[i].call.imageData,
                   inflight[i].call.textInput)
    /\ (lastOp \in {"clickGo", "keyDownEnter"} /\ wire = 1)
          => ImageParts(inflight[Len(inflight)].request.parts) = {}

\* Go has sent the typed text while the surface holds a drawing.
C8_Witness ==
    /\ lastOp = "clickGo" /\ wire = 1 /\ hasDrawn
    /\ inflight[1].call.textInput = Some("Benzene")

\* C9: every cell inked before a resize is inked after it.
C9_ResizeKeepsInk ==
    [][lastOp' = "handleResize"
          => \A p \in DOMAIN pixels :
                pixels[p] = "ink" => (p \in DOMAIN pixels' /\ pixels'[p] = "ink")]_vars

AllWhite == \A p \in DOMAIN pixels : pixels[p] = "white"

NoContent == \A type \in ImageTypes : ExportStill(hasDrawn, pixels, type) = Null

\* C10: after clear, in any state, hasInk is false and the whole buffer is
\* background; and from a state where exportStill gives "no content", every
\* step but startStroke leads to one where it does.
C10_ClearThenNoContent ==
    /\ [](lastOp = "clearCanvas" => (~hasDrawn /\ AllWhite /\ NoContent))
    /\ [][(NoContent /\ lastOp' # "startDrawing") => NoContent']_vars

\* Clear All was pressed with a stroke active and a request in flight.
C10_Witness == lastOp = "clearCanvas" /\ isDrawing /\ isProcessing

HasInkCell == \E p \in DOMAIN pixels : pixels[p] = "ink"

\* C11: in every reachable state the buffer has a cell for every point of the
\* canvas and none of them is transparent, whatever strokes of the pen and the
\* eraser, clears and resizes have gone before.
C11_BufferOpaque ==
    /\ DOMAIN pixels = Grid(width, height)
    /\ \A p \in DOMAIN pixels : pixels[p] \in {"white", "ink"}

\* The surface has been resized to its largest with ink on it: the cells the
\* new buffer added are white.
C11_Witness ==
    /\ lastOp = "handleResize" /\ width = MaxW /\ height = MaxH
    /\ pixels[<<0, 0>>] = "ink"
    /\ pixels[<<MaxW - 1, MaxH - 1>>] = "white"

\* C12: after stopDrawing, in any state it is called in, no stroke is active;
\* and called with no stroke active it changes nothing of the surface.
C12_EndStrokeEnds ==
    /\ [](lastOp = "stopDrawing" => ~isDrawing)
    /\ [][(lastOp' = "stopDrawing" /\ ~isDrawing) => UNCHANGED canvasVars]_vars

\* The handlers of the surface the user reaches.
SurfaceOps == {"startDrawing", "draw", "stopDrawing", "clearCanvas", "handleCapture"}

\* C13: while a request is in flight no handler of the surface changes the
\* buffer, hasDrawn or isDrawing.
C13_SurfaceFrozenInFlight ==
    [][(isProcessing /\ inflight # << >> /\ lastOp' \in SurfaceOps)
          => UNCHANGED <<pixels, hasDrawn, isDrawing>>]_vars

\* C19: in every reachable state, hasDrawn false means that no cell of the
\* buffer holds ink.
C19_NoInkWithoutHasDrawn == ~hasDrawn => ~HasInkCell

\* C14: the error is one message or none; a change of the text and a dismiss
\* leave it empty and leave the result and the processing flag; and a step
\* that stores a message is a submission or the settling of a request.
C14_OneErrorClearedOnEdit ==
    /\ [](Len(error) <= 1)
    /\ [][/\ lastOp' \in {"changeText", "dismissError"}
                => (error' = Null /\ UNCHANGED <<result, isProcessing>>)
          /\ (error' # Null /\ error' # error)
                => lastOp' \in Submits \cup {"requestSettles"}]_vars

\* The banner was dismissed while a result was stored, and the result stays.
C14_Witness ==
    lastOp = "dismissError" /\ error = Null /\ HasResult /\ ~isProcessing

\* C17: the step in which a request settles clears the processing flag and
\* leaves the controller Succeeded or Failed, never Idle.
C17_SettlesToOutcome ==
    [][lastOp' = "requestSettles"
          => (~isProcessing' /\ (Succeeded' \/ Failed'))]_vars

\* The checks of the classification in the order claimed.
ClaimedOrder ==
    << [patterns |-> {"API key", "401"},        message |-> AuthMessage],
       [patterns |-> {"403"},                   message |-> AccessDeniedMessage],
       [patterns |-> {"429"},                   message |-> RateLimitedMessage],
       [patterns |-> {"fetch failed", "network"}, message |-> NetworkMessage],
       [patterns |-> {"Safety", "blocked"},     message |-> ContentPolicyMessage],
       [patterns |-> {"JSON", "structure"},     message |-> DataErrorMessage] >>

Matches(d) ==
    {i \in DOMAIN ClaimedOrder : \E pat \in ClaimedOrder[i].patterns : Includes(d, pat)}

\* The message of the earliest check the description matches, or the
\* description itself if it matches none.
FirstMatch(d) ==
    IF Matches(d) = {} THEN d
    ELSE ClaimedOrder[CHOOSE i \in Matches(d) : \A j \in Matches(d) : i <= j].message

\* C18: an error of the backend call comes out as the message of the earliest
\* check its description matches, in the order Auth, AccessDenied, RateLimited,
\* Network, ContentPolicy, MalformedResponse, and as the description itself if
\* it matches none.
C18_FirstMatchInOrder ==
    BackendFailed
        => outcome.kind = "throw" /\ outcome.settled = Some(FirstMatch(Description))

\* A description with "network" and then "403" has come out as access denied.
C18_Witness ==
    /\ BackendFailed
    /\ Description = "network403"
    /\ outcome.settled = Some(AccessDeniedMessage)

\* The height of a page, in the units of the document d.
PageUnits(d) == pageHeight * d.unit

\* C15: the document saved has page k (k = 0, 1, ...) at the offset
\* -k * pageHeight, has ceil(imgHeight / pageHeight) pages, so more than one
\* exactly when the image is higher than a page, and every page shows a part
\* of the image.
C15_PagesAreCeiling ==
    pdf # Null =>
        /\ \A i \in DOMAIN pdf[1].pages :
               pdf[1].pages[i] = -((i - 1) * PageUnits(pdf[1]))
        /\ Len(pdf[1].pages)
               = (pdf[1].imgHeight + PageUnits(pdf[1]) - 1) \div PageUnits(pdf[1])
        /\ (Len(pdf[1].pages) > 1) <=> (pdf[1].imgHeight > PageUnits(pdf[1]))
        /\ \A i \in DOMAIN pdf[1].pages :
               (i - 1) * PageUnits(pdf[1]) < pdf[1].imgHeight

\* C16: after App has mounted the item stored is the name of the active
\* theme; App mounts with the theme that was stored, or with the system's
\* preference when none was; loading the page again keeps the active theme;
\* and a toggle turns the active theme into the other one, so that two
\* toggles restore the theme and the item.
C16_ThemePersisted ==
    /\ [](theme = Some(ThemeName(isDarkMode)))
    /\ [](lastOp \in {"init", "restart"}
            => isDarkMode = CASE saved = Some("dark") -> TRUE
                              [] saved = Some("light") -> FALSE
                              [] saved = Null -> prefersDark)
    /\ [][/\ lastOp' = "restart" => isDarkMode' = isDarkMode
          /\ lastOp' = "toggleTheme" => isDarkMode' = ~isDarkMode]_vars

\* The page was loaded again with the dark theme stored and a system that
\* prefers light: the dark theme is active.
C16_Witness ==
    lastOp = "restart" /\ saved = Some("dark") /\ ~prefersDark /\ isDarkMode

====
